---- MODULE Spec2Model ----
(***************************************************************************)
(* Model of packages/now-next/src/index.ts: the build adapter for Next.js  *)
(* projects (build, prepareCache, shouldServe and the dev-server proxy).   *)
(*                                                                         *)
(* Strings the code inspects character by character (paths, request paths, *)
(* page bundle names) are sequences of one-character strings, so that the  *)
(* regular expressions and path operations of the code are computed, not   *)
(* assumed.                                                                *)
(***************************************************************************)
EXTENDS Integers, Sequences, FiniteSets, TLC

\* ------------------------------------------------------------------ bounds

\* Largest number of page bundles the build tool leaves behind in one build.
MaxPages == 3

\* Number of interactive (dev-mode) build requests the process receives.
MaxRequests == 3

\* ------------------------------------------------------- string literals

S_js == <<".","j","s">>
S_ts == <<".","t","s">>
S_jsx == <<".","j","s","x">>
S_tsx == <<".","t","s","x">>
S_mdx == <<".","m","d","x">>
S_index == <<"i","n","d","e","x">>
S_slash_index == <<"/","i","n","d","e","x">>
S_dot == <<".">>
S_dotdot == <<".",".">>
S_slash == <<"/">>
S_empty == <<>>
S_pages == <<"p","a","g","e","s">>
S_pages_slash == <<"p","a","g","e","s","/">>
S_static_slash == <<"s","t","a","t","i","c","/">>
S_next == <<"_","n","e","x","t">>
S_next_static == <<"_","n","e","x","t","/","s","t","a","t","i","c">>
S_client_pages == <<"_","n","e","x","t","/","s","t","a","t","i","c","/","u","n","o","p","t","i","m","i","z","e","d","-","b","u","i","l","d","/","p","a","g","e","s","/">>

S_app == <<"_","a","p","p">>
S_error == <<"_","e","r","r","o","r">>
S_document == <<"_","d","o","c","u","m","e","n","t">>
S_app_js == <<"_","a","p","p",".","j","s">>
S_error_js == <<"_","e","r","r","o","r",".","j","s">>
S_document_js == <<"_","d","o","c","u","m","e","n","t",".","j","s">>
S_about_js == <<"a","b","o","u","t",".","j","s">>
S_index_js == <<"i","n","d","e","x",".","j","s">>
S_blog_index_js == <<"b","l","o","g","/","i","n","d","e","x",".","j","s">>
S_static_logo_js == <<"s","t","a","t","i","c","/","l","o","g","o",".","j","s">>

S_about == <<"a","b","o","u","t">>
S_blog == <<"b","l","o","g">>
S_blog_index == <<"b","l","o","g","/","i","n","d","e","x">>
S_app_dir == <<"a","p","p">>

S_package_json == <<"p","a","c","k","a","g","e",".","j","s","o","n">>
S_app_package_json == <<"a","p","p","/","p","a","c","k","a","g","e",".","j","s","o","n">>

\* ------------------------------------------------------ string operations

\* String.prototype.startsWith
StartsWith(s, p) ==
  /\ Len(p) <= Len(s)
  /\ SubSeq(s, 1, Len(p)) = p

\* String.prototype.endsWith
EndsWith(s, p) ==
  /\ Len(p) <= Len(s)
  /\ SubSeq(s, Len(s) - Len(p) + 1, Len(s)) = p

\* s without its first n characters (String.prototype.slice(n))
DropFirst(s, n) == SubSeq(s, n + 1, Len(s))

\* s without its last n characters (String.prototype.slice(0, -n))
DropLast(s, n) == SubSeq(s, 1, Len(s) - n)

\* Positions of character c in s
Positions(s, c) == {i \in 1..Len(s) : s[i] = c}

SetMax(S) == CHOOSE x \in S : \A y \in S : y <= x
SetMin(S) == CHOOSE x \in S : \A y \in S : x <= y

\* The "/"-separated segments of s, empty segments included
RECURSIVE SplitPath(_)
SplitPath(s) ==
  IF Positions(s, "/") = {}
  THEN <<s>>
  ELSE LET i == SetMin(Positions(s, "/"))
       IN <<SubSeq(s, 1, i - 1)>> \o SplitPath(DropFirst(s, i))

\* Segments joined with "/"
RECURSIVE JoinSegs(_)
JoinSegs(segs) ==
  IF Len(segs) = 0 THEN S_empty
  ELSE IF Len(segs) = 1 THEN segs[1]
  ELSE segs[1] \o S_slash \o JoinSegs(Tail(segs))

\* path.posix normalizeString: drops "" and "." segments and resolves "..";
\* a relative path keeps the ".." it cannot resolve.
RECURSIVE NormalizeSegs(_, _, _)
NormalizeSegs(segs, acc, allowAboveRoot) ==
  IF Len(segs) = 0 THEN acc
  ELSE LET h == Head(segs)
           t == Tail(segs)
       IN IF h = S_empty \/ h = S_dot
          THEN NormalizeSegs(t, acc, allowAboveRoot)
          ELSE IF h = S_dotdot
          THEN IF Len(acc) > 0 /\ acc[Len(acc)] # S_dotdot
               THEN NormalizeSegs(t, SubSeq(acc, 1, Len(acc) - 1), allowAboveRoot)
               ELSE IF allowAboveRoot
               THEN NormalizeSegs(t, Append(acc, h), allowAboveRoot)
               ELSE NormalizeSegs(t, acc, allowAboveRoot)
          ELSE NormalizeSegs(t, Append(acc, h), allowAboveRoot)

\* path.posix.normalize
PathNormalize(p) ==
  IF Len(p) = 0 THEN S_dot
  ELSE LET isAbsolute == p[1] = "/"
           trailingSeparator == p[Len(p)] = "/"
           body == JoinSegs(NormalizeSegs(SplitPath(p), <<>>, ~isAbsolute))
           body1 == IF Len(body) = 0 /\ ~isAbsolute THEN S_dot ELSE body
           body2 == IF Len(body1) > 0 /\ trailingSeparator
                    THEN body1 \o S_slash ELSE body1
       IN IF isAbsolute THEN S_slash \o body2 ELSE body2

\* path.posix.join of two arguments
PathJoin(a, b) ==
  LET joined == IF Len(a) = 0 THEN b
                ELSE IF Len(b) = 0 THEN a
                ELSE a \o S_slash \o b
  IN IF Len(joined) = 0 THEN S_dot ELSE PathNormalize(joined)

\* path.posix.dirname of a path that does not end in "/"
PathDirname(p) ==
  IF Positions(p, "/") = {} THEN S_dot
  ELSE LET i == SetMax(Positions(p, "/"))
       IN IF i = 1 THEN S_slash ELSE SubSeq(p, 1, i - 1)

\* ------------------------------------------------------ version classifier

\* A version is <<major, minor, patch>>; no version is the empty tuple
\* (semver.maxSatisfying returns null).
NoVersion == <<>>

\* A version requirement, as written in package.json:
\*   kind "tag"     "latest" / "canary" (field tag)
\*   kind "exact"   "7.0.2"
\*   kind "caret"   "^7.0.0"
\*   kind "gte"     ">=8.0.0"
\*   kind "invalid" a string semver cannot parse as a range ("not-a-version")
\*   kind "empty"   the empty string
\*   kind "absent"  the key is missing (undefined)
Req(kind, v, tag) == [kind |-> kind, v |-> v, tag |-> tag]

ReqAbsent == Req("absent", NoVersion, "")
ReqEmpty == Req("empty", NoVersion, "")
ReqInvalid == Req("invalid", NoVersion, "")
ReqLatest == Req("tag", NoVersion, "latest")
ReqCanary == Req("tag", NoVersion, "canary")

\* The versions of ./legacy-versions (a sample of the list)
NextLegacyVersions == {<<5, 0, 0>>, <<6, 1, 2>>, <<7, 0, 2>>}

VersionLess(a, b) ==
  \/ a[1] < b[1]
  \/ a[1] = b[1] /\ a[2] < b[2]
  \/ a[1] = b[1] /\ a[2] = b[2] /\ a[3] < b[3]

\* The upper end (exclusive) of the caret range ^v
CaretUpper(v) ==
  IF v[1] > 0 THEN <<v[1] + 1, 0, 0>>
  ELSE IF v[2] > 0 THEN <<0, v[2] + 1, 0>>
  ELSE <<0, 0, v[3] + 1>>

\* semver.satisfies(version, range); the empty range is "*"
SemverSatisfies(version, req) ==
  CASE req.kind = "exact" -> version = req.v
    [] req.kind = "empty" -> TRUE
    [] req.kind = "caret" -> ~VersionLess(version, req.v) /\ VersionLess(version, CaretUpper(req.v))
    [] req.kind = "gte" -> ~VersionLess(version, req.v)
    [] OTHER -> FALSE

\* semver.maxSatisfying(versions, range): the highest version that satisfies
\* the range; null when none does and when the range cannot be parsed (the
\* library catches the parse error and returns null).
SemverMaxSatisfying(versions, req) ==
  LET ok == {v \in versions : SemverSatisfies(v, req)}
  IN IF req.kind \in {"invalid", "absent", "tag"} \/ ok = {}
     THEN NoVersion
     ELSE CHOOSE v \in ok : \A w \in ok : w = v \/ VersionLess(w, v)

\* nextLegacyVersions.indexOf(nextVersion) !== -1: the requirement string is,
\* character for character, a member of the list.
InLegacyList(req) == req.kind = "exact" /\ req.v \in NextLegacyVersions

\* Mutant: a requirement no legacy version satisfies is not told apart.
NoneSatisfies_Never(maxSatisfying) == FALSE

\* if (maxSatisfying === null) return false
NoneSatisfies(maxSatisfying) == maxSatisfying = NoVersion

isLegacyNext(nextVersion) ==
  IF nextVersion.kind = "tag" /\ nextVersion.tag \in {"canary", "latest"}
  THEN FALSE
  ELSE IF InLegacyList(nextVersion)
  THEN TRUE
  ELSE ~NoneSatisfies(SemverMaxSatisfying(NextLegacyVersions, nextVersion))

\* JavaScript truthiness of a requirement string
Truthy(req) == req.kind \notin {"absent", "empty"}

\* getNextVersion(packageJson): dependencies.next if truthy, else
\* devDependencies.next if truthy, else undefined.
getNextVersion(pkg) ==
  IF Truthy(pkg.deps) THEN pkg.deps
  ELSE IF Truthy(pkg.devDeps) THEN pkg.devDeps
  ELSE ReqAbsent

\* -------------------------------------------------------- page packaging

\* page.replace(/\.js$/, '')
StripJs(page) == IF EndsWith(page, S_js) THEN DropLast(page, 3) ELSE page

\* pathname.replace(/(^|\/)index$/, '')
CollapseIndex(pathname) ==
  IF pathname = S_index THEN S_empty
  ELSE IF EndsWith(pathname, S_slash_index) THEN DropLast(pathname, 6)
  ELSE pathname

\* Mutant: the special pages are not skipped.
IsSpecialPage_Never(page) == FALSE

\* ['_app.js', '_error.js', '_document.js'].includes(page)
IsSpecialPage(page) == page \in {S_app_js, S_error_js, S_document_js}

\* The pathname substituted for PATHNAME_PLACEHOLDER in the legacy launcher
LauncherPathname(page) == S_slash \o CollapseIndex(StripJs(page))

\* The output key of a page's lambda, the same in both modes:
\* path.join(entryDirectory, pathname)
LambdaKey(entryDirectory, page) == PathJoin(entryDirectory, StripJs(page))

\* ------------------------------------------------------------- the state

VARIABLES
  \* build(): one non-interactive invocation
  bpc,        \* position of the invocation in build()
  binp,       \* its inputs: entrypoint, meta.isDev, files[entrypoint].fsPath,
              \* package.json, process.env.NPM_AUTH_TOKEN
  disk,       \* the files of entryPath the invocation reads and writes
  isLegacy,   \* the classification: "unset" before line 259, then "true" / "false"
  steps,      \* the external steps started so far, in order
  pages,      \* the page bundles discovered by glob
  pending,    \* the page bundles whose createLambda has not settled
  lambdas,    \* lambdas: output key -> the unit created for it
  result,     \* what build() returned
  error,      \* what build() threw
  logs,       \* what it printed that the claims are about
  \* the dev proxy: process-wide registry and the interactive invocations
  urls,       \* urls: entrypoint -> base URL of its dev server
  reqs,       \* the interactive build() invocations, each with the dev
              \* server it spawned
  \* shouldServe(): one call
  sinp,       \* its arguments
  sres,       \* its result
  \* prepareCache(): one call
  cinp,       \* its arguments, package.json and the files under workPath
  cres,       \* what it returned or threw
  \* isLegacyNext(): one call
  vinp,       \* the version requirement
  vres        \* its result

buildVars == <<bpc, binp, disk, isLegacy, steps, pages, pending, lambdas, result, error, logs>>
devVars == <<urls, reqs>>
serveVars == <<sinp, sres>>
cacheVars == <<cinp, cres>>
versionVars == <<vinp, vres>>
vars == <<buildVars, devVars, serveVars, cacheVars, versionVars>>

\* ------------------------------------------------------------ build inputs

EntryPoints == {S_package_json, S_app_package_json}

\* pkg.scripts: a map from script name to command, or undefined
NoScripts == [def |-> FALSE, m |-> [k \in {} |-> ""]]
Scripts(m) == [def |-> TRUE, m |-> m]

ScriptChoices == {
  NoScripts,
  Scripts([k \in {"dev"} |-> "next"]),
  Scripts([k \in {"dev", "now-build"} |-> IF k = "dev" THEN "next" ELSE "next build --custom"]),
  Scripts([k \in {"dev", "now-build"} |-> IF k = "dev" THEN "next" ELSE ""])
}

DepChoices == {
  ReqAbsent,
  ReqEmpty,
  ReqLatest,
  Req("exact", <<7, 0, 2>>, ""),
  Req("caret", <<6, 0, 0>>, ""),
  Req("gte", <<8, 0, 0>>, ""),
  ReqInvalid
}

DevDepChoices == {ReqAbsent, Req("exact", <<5, 0, 0>>, "")}

\* The page bundles the build tool may leave under the pages directory
PageCandidates == {S_about_js, S_index_js, S_blog_index_js, S_static_logo_js,
                   S_app_js, S_error_js, S_document_js}

PageSets == {P \in SUBSET PageCandidates : Cardinality(P) <= MaxPages}

\* The inputs of a build() invocation that runs the build pipeline: the
\* dev-proxy branch is taken only when meta.isDev and the entrypoint's fsPath
\* are both set.
BuildInputs ==
  {i \in [entrypoint : EntryPoints, isDev : BOOLEAN, fsPath : BOOLEAN,
          deps : DepChoices, devDeps : DevDepChoices, scripts : ScriptChoices,
          token : BOOLEAN, lockfiles : BOOLEAN] :
     ~(i.isDev /\ i.fsPath)}

NoResult == [returned |-> FALSE, routes |-> <<>>, output |-> <<>>, watch |-> FALSE]

EmptyFiles == [k \in {} |-> [group |-> "", page |-> <<>>, launcher |-> <<>>]]

BuildIdle ==
  /\ bpc = "off"
  /\ binp = [entrypoint |-> S_package_json, isDev |-> FALSE, fsPath |-> FALSE,
             deps |-> ReqAbsent, devDeps |-> ReqAbsent, scripts |-> NoScripts,
             token |-> FALSE, lockfiles |-> FALSE]
  /\ disk = [downloaded |-> FALSE, npmrc |-> FALSE, pkgWrites |-> 0,
             scripts |-> NoScripts, normalized |-> FALSE, lockfiles |-> FALSE,
             buildId |-> "unread", globbed |-> FALSE, nextConfig |-> "unread"]
  /\ isLegacy = "unset"
  /\ steps = <<>>
  /\ pages = {}
  /\ pending = {}
  /\ lambdas = EmptyFiles
  /\ result = NoResult
  /\ error = ""
  /\ logs = {}

\* ------------------------------------------------------ build(): pipeline

S_x_js == <<"x",".","j","s">>
S_static == <<"s","t","a","t","i","c">>
S_static_logo == <<"s","t","a","t","i","c","/","l","o","g","o">>
S_app_static_logo == <<"a","p","p","/","s","t","a","t","i","c","/","l","o","g","o">>

\* Files the build tool may leave under .next/static
NextStaticCandidates == {S_x_js}

\* Files of the input file set that lie in a static directory
InputStaticCandidates == {S_static_logo, S_app_static_logo}

\* { ...a, ...b }
Spread(a, b) ==
  [k \in DOMAIN a \cup DOMAIN b |-> IF k \in DOMAIN b THEN b[k] ELSE a[k]]

\* utils.includeOnlyEntryDirectory(files, entryDirectory): every file when the
\* directory is ".", else the files whose path starts with the directory.
includeOnlyEntryDirectory(files, entryDirectory) ==
  IF entryDirectory = S_dot THEN files
  ELSE {f \in files : StartsWith(f, entryDirectory)}

\* utils.onlyStaticDirectory(files, entryDirectory): the files whose path
\* starts with path.join(entryDirectory, 'static').
onlyStaticDirectory(files, entryDirectory) ==
  {f \in files : StartsWith(f, PathJoin(entryDirectory, S_static))}

\* utils.normalizePackageJson(pkg): the scripts of the manifest the legacy
\* path writes; the build script becomes the legacy build invocation.
normalizePackageJson(scripts) ==
  Scripts(Spread(scripts.m, [k \in {"now-build"} |-> "next build --lambdas"]))

\* const entryDirectory = path.dirname(entrypoint)
EntryDirectory == PathDirname(binp.entrypoint)

\* Mutant: the missing-version check is dropped.
MissingVersion_Never(nextVersion) == FALSE

\* if (!nextVersion) throw
MissingVersion(nextVersion) == ~Truthy(nextVersion)

\* !pkg.scripts || !pkg.scripts['now-build']
LacksNowBuild(scripts) ==
  \/ ~scripts.def
  \/ "now-build" \notin DOMAIN scripts.m
  \/ scripts.m["now-build"] = ""

\* pkg.scripts = { 'now-build': 'next build', ...(pkg.scripts || {}) }
InjectNowBuild(scripts) ==
  Scripts(Spread([k \in {"now-build"} |-> "next build"], scripts.m))

\* Mutant: a missing BUILD_ID is not noticed.
BuildIdMissing_Never(present) == FALSE

\* readFile(.next/BUILD_ID) throws
BuildIdMissing(present) == ~present

\* Mutant: the empty page list is not noticed.
NoPagesBuilt_Never(pageKeys) == FALSE

\* pageKeys.length === 0
NoPagesBuilt(pageKeys) == Cardinality(pageKeys) = 0

\* A thrown error rejects build(): nothing in build() catches it and no later
\* statement of build() runs, so the disk is left as it is. Only createLambda
\* calls already in flight still settle.
Throw(e) ==
  /\ bpc' = "failed"
  /\ error' = e

\* validateEntrypoint; the dev-proxy branch is not taken (line 206);
\* await download(files, workPath)
Download ==
  /\ bpc = "start"
  /\ bpc' = "downloaded"
  /\ disk' = [disk EXCEPT !.downloaded = TRUE, !.scripts = binp.scripts,
                          !.lockfiles = binp.lockfiles]
  /\ steps' = Append(steps, "download")
  /\ UNCHANGED <<binp, isLegacy, pages, pending, lambdas, result, error, logs>>

\* readPackageJson, getNextVersion, the missing-version check, isLegacyNext
Classify ==
  /\ bpc = "downloaded"
  /\ LET nextVersion == getNextVersion(binp)
     IN IF MissingVersion(nextVersion)
        THEN /\ Throw("No Next.js version could be detected")
             /\ UNCHANGED isLegacy
        ELSE /\ bpc' = "classified"
             /\ isLegacy' = IF isLegacyNext(nextVersion) THEN "true" ELSE "false"
             /\ UNCHANGED error
  /\ UNCHANGED <<binp, disk, steps, pages, pending, lambdas, result, logs>>

\* Lines 264-274, legacy: yarn.lock and package-lock.json are unlinked; a
\* failing unlink (no such file) is caught and changes nothing.
UnlinkLockfiles ==
  /\ bpc = "classified"
  /\ isLegacy = "true"
  /\ disk.lockfiles
  /\ disk' = [disk EXCEPT !.lockfiles = FALSE]
  /\ UNCHANGED <<bpc, binp, isLegacy, steps, pages, pending, lambdas, result, error, logs>>

\* Lines 280-294: the legacy path, its lockfiles gone, writes the normalized
\* manifest; the modern path injects the build script when the manifest
\* lacks one and writes it.
Normalize ==
  /\ bpc = "classified"
  /\ isLegacy = "true" => ~disk.lockfiles
  /\ bpc' = "normalized"
  /\ IF isLegacy = "true"
     THEN disk' = [disk EXCEPT !.scripts = normalizePackageJson(binp.scripts),
                               !.normalized = TRUE,
                               !.pkgWrites = @ + 1]
     ELSE IF LacksNowBuild(binp.scripts)
     THEN disk' = [disk EXCEPT !.scripts = InjectNowBuild(binp.scripts),
                               !.pkgWrites = @ + 1]
     ELSE UNCHANGED disk
  /\ UNCHANGED <<binp, isLegacy, steps, pages, pending, lambdas, result, error, logs>>

\* if (process.env.NPM_AUTH_TOKEN) await writeNpmRc(...)
WriteNpmRc ==
  /\ bpc = "normalized"
  /\ bpc' = "install"
  /\ disk' = [disk EXCEPT !.npmrc = IF binp.token THEN TRUE ELSE @]
  /\ UNCHANGED <<binp, isLegacy, steps, pages, pending, lambdas, result, error, logs>>

\* await runNpmInstall(entryPath, ['--prefer-offline'])
Install ==
  /\ bpc = "install"
  /\ steps' = Append(steps, "install")
  /\ \E ok \in BOOLEAN :
       IF ok THEN bpc' = "script" /\ UNCHANGED error
       ELSE Throw("npm install failed")
  /\ UNCHANGED <<binp, disk, isLegacy, pages, pending, lambdas, result, logs>>

\* Mutant: the production-only install runs in both modes.
NeedsProdInstall_Always(legacy) == TRUE

\* if (isLegacy) { ... runNpmInstall(entryPath, [..., '--production']) }
NeedsProdInstall(legacy) == legacy = "true"

\* await runPackageJsonScript(entryPath, 'now-build')
RunScript ==
  /\ bpc = "script"
  /\ steps' = Append(steps, "now-build")
  /\ \E ok \in BOOLEAN :
       IF ok
       THEN /\ bpc' = IF NeedsProdInstall(isLegacy) THEN "prodInstall" ELSE "unlink"
            /\ UNCHANGED error
       ELSE Throw("now-build failed")
  /\ UNCHANGED <<binp, disk, isLegacy, pages, pending, lambdas, result, logs>>

\* if (isLegacy) await runNpmInstall(entryPath, [..., '--production'])
ProdInstall ==
  /\ bpc = "prodInstall"
  /\ steps' = Append(steps, "install --production")
  /\ \E ok \in BOOLEAN :
       IF ok THEN bpc' = "unlink" /\ UNCHANGED error
       ELSE Throw("npm install --production failed")
  /\ UNCHANGED <<binp, disk, isLegacy, pages, pending, lambdas, result, logs>>

\* if (process.env.NPM_AUTH_TOKEN) await unlinkFile(.npmrc)
UnlinkNpmRc ==
  /\ bpc = "unlink"
  /\ bpc' = "discover"
  /\ disk' = [disk EXCEPT !.npmrc = IF binp.token THEN FALSE ELSE @]
  /\ UNCHANGED <<binp, isLegacy, steps, pages, pending, lambdas, result, error, logs>>

\* Legacy, lines 319-333: the files are globbed and .next/BUILD_ID is read;
\* a failed read is logged and thrown as 'Missing BUILD_ID'.
ReadBuildId ==
  /\ bpc = "discover"
  /\ isLegacy = "true"
  /\ disk.buildId = "unread"
  /\ \E present \in BOOLEAN :
       IF BuildIdMissing(present)
       THEN /\ Throw("Missing BUILD_ID")
            /\ logs' = logs \cup {"BUILD_ID not found"}
            /\ disk' = [disk EXCEPT !.buildId = "absent"]
       ELSE /\ disk' = [disk EXCEPT !.buildId = IF present THEN "present" ELSE "absent"]
            /\ UNCHANGED <<bpc, error, logs>>
  /\ UNCHANGED <<binp, isLegacy, steps, pages, pending, lambdas, result>>

\* Legacy, lines 334-355: with BUILD_ID read, the page bundles under
\* .next/server/static/<buildId>/pages are enumerated.
DiscoverLegacy ==
  /\ bpc = "discover"
  /\ isLegacy = "true"
  /\ disk.buildId # "unread"
  /\ ~disk.globbed
  /\ \E P \in PageSets : pages' = P
  /\ disk' = [disk EXCEPT !.globbed = TRUE]
  /\ UNCHANGED <<bpc, binp, isLegacy, steps, pending, lambdas, result, error, logs>>

\* Modern, lines 401-413: the page bundles under .next/serverless/pages are
\* enumerated.
DiscoverModern ==
  /\ bpc = "discover"
  /\ isLegacy = "false"
  /\ ~disk.globbed
  /\ \E P \in PageSets : pages' = P
  /\ disk' = [disk EXCEPT !.globbed = TRUE]
  /\ UNCHANGED <<bpc, binp, isLegacy, steps, pending, lambdas, result, error, logs>>

\* Modern, lines 415-427: no page bundle at all is an error, thrown after
\* getNextConfig was awaited and next.config.js, when found, printed.
NoPagesThrow ==
  /\ bpc = "discover"
  /\ isLegacy = "false"
  /\ disk.globbed
  /\ NoPagesBuilt(pages)
  /\ \E nextConfig \in BOOLEAN :
       /\ logs' = IF nextConfig THEN logs \cup {"Found next.config.js"} ELSE logs
       /\ disk' = [disk EXCEPT !.nextConfig = IF nextConfig THEN "found" ELSE "none"]
  /\ Throw("No serverless pages were built")
  /\ UNCHANGED <<binp, isLegacy, steps, pages, pending, lambdas, result>>

\* Promise.all(Object.keys(pages).map(...)), after the launcher was read
\* (legacy, line 357) or the assets globbed (modern, line 430): the special
\* pages return at once, every other page has a createLambda in flight.
StartPackaging ==
  /\ bpc = "discover"
  /\ disk.globbed
  /\ isLegacy = "false" => ~NoPagesBuilt(pages)
  /\ bpc' = "package"
  /\ pending' = {p \in pages : ~IsSpecialPage(p)}
  /\ UNCHANGED <<binp, disk, isLegacy, steps, pages, lambdas, result, error, logs>>

\* The unit createLambda returns for a page: the legacy launcher has the
\* page's pathname substituted, the modern launcher is a fixed file.
UnitFor(page) ==
  [group |-> "lambda", page |-> page,
   launcher |-> IF isLegacy = "true" THEN LauncherPathname(page) ELSE S_empty]

\* One createLambda resolves: lambdas[path.join(entryDirectory, pathname)] = ...
\* A call in flight resolves also after another one rejected and build()
\* threw.
PackagePage(p) ==
  /\ bpc \in {"package", "failed"}
  /\ p \in pending
  /\ pending' = pending \ {p}
  /\ lambdas' = Spread(lambdas, [k \in {LambdaKey(EntryDirectory, p)} |-> UnitFor(p)])
  /\ UNCHANGED <<bpc, binp, disk, isLegacy, steps, pages, result, error, logs>>

\* One createLambda rejects: on the first rejection Promise.all rejects and
\* build() throws; a later rejection changes nothing more.
PackageFail(p) ==
  /\ bpc \in {"package", "failed"}
  /\ p \in pending
  /\ pending' = pending \ {p}
  /\ IF bpc = "package"
     THEN Throw("createLambda failed")
     ELSE UNCHANGED <<bpc, error>>
  /\ UNCHANGED <<binp, disk, isLegacy, steps, pages, lambdas, result, logs>>

StaticUnit(file) == [group |-> "static", page |-> file, launcher |-> S_empty]
StaticDirUnit(file) == [group |-> "staticDir", page |-> file, launcher |-> S_empty]

\* Lines 465-475: every file of .next/static under
\* path.join(entryDirectory, `_next/static/${file}`)
StaticFiles(nextStaticFiles) ==
  [k \in {PathJoin(EntryDirectory, S_next_static \o S_slash \o f) : f \in nextStaticFiles}
     |-> StaticUnit(k)]

\* Lines 477-480
StaticDirectoryFiles(files) ==
  [k \in onlyStaticDirectory(includeOnlyEntryDirectory(files, EntryDirectory), EntryDirectory)
     |-> StaticDirUnit(k)]

\* Lines 465-486: Promise.all has resolved; the static files are added and
\* build() returns.
Finish ==
  /\ bpc = "package"
  /\ pending = {}
  /\ bpc' = "done"
  /\ \E nextStaticFiles \in SUBSET NextStaticCandidates,
        files \in SUBSET InputStaticCandidates :
       result' = [returned |-> TRUE,
                  routes |-> <<>>,
                  output |-> Spread(Spread(lambdas, StaticFiles(nextStaticFiles)),
                                    StaticDirectoryFiles(files)),
                  watch |-> TRUE]
  /\ UNCHANGED <<binp, disk, isLegacy, steps, pages, pending, lambdas, error, logs>>

\* ------------------------------------------------- build(): the dev proxy

\* getPort({ port: [5000, 4000] }) prefers these ports
PreferredPortA == 5000
PreferredPortB == 4000

\* The ports getPort may return: a preferred one, or any other free port
\* when both are taken (one stands for them).
AnyOtherPort == PreferredPortB + 1
Ports == {PreferredPortA, PreferredPortB, AnyOtherPort}

\* `http://localhost:${openPort}`; urls[entrypoint] is undefined until set
Url(port) == [set |-> TRUE, port |-> port]
NoUrl == [set |-> FALSE, port |-> 0]

\* meta.requestPath: a string or undefined
NoPath == [def |-> FALSE, val |-> S_empty]
Path(s) == [def |-> TRUE, val |-> s]

S_about_query == <<"a","b","o","u","t","?","x","=","1">>

RequestPaths == {NoPath, Path(S_about_query)}

NoRoutes == <<>>

NewRequest == [pc |-> "new", entrypoint |-> S_package_json, requestPath |-> NoPath,
               port |-> 0, spawned |-> FALSE, ready |-> FALSE, routes |-> NoRoutes]

DevIdle ==
  /\ urls = [e \in EntryPoints |-> NoUrl]
  /\ reqs = [r \in 1..MaxRequests |-> NewRequest]

\* url.parse(s).pathname: s up to its first "?" or "#"
UrlPathname(s) ==
  LET cut == Positions(s, "?") \cup Positions(s, "#")
  IN IF cut = {} THEN s ELSE SubSeq(s, 1, SetMin(cut) - 1)

\* Lines 221-228: the route pushed for a request path
RoutesFor(requestPath, url) ==
  IF requestPath.def
  THEN <<[src |-> UrlPathname(S_slash \o requestPath.val),
          dest |-> [base |-> url, path |-> requestPath.val]]>>
  ELSE NoRoutes

\* The dev servers started so far for an entry point
ServersStarted(e) == {r \in 1..MaxRequests : reqs[r].spawned /\ reqs[r].entrypoint = e}

\* A promise continuation is queued: it runs before any other event.
MicrotaskQueued == \E r \in 1..MaxRequests : reqs[r].pc = "resolved"

\* if (!urls[entrypoint]) start a server
MustStart(e) == ~urls[e].set

\* Mutant: the handler does not look at the registry.
ChunkIgnored_NoRegistryCheck(includes, e) == ~includes

\* stdout.on('data'): if (!chunk.includes(url) || urls[entrypoint]) return
ChunkIgnored(includes, e) == ~includes \/ urls[e].set

\* build() is called with meta.isDev and an entrypoint that has an fsPath.
\* It runs up to its first await: with a registered URL it returns its route
\* at once, otherwise it calls startDevServer, which awaits getPort.
\* Invocations are numbered in the order they are made.
DevBegin(r, e, rp) ==
  /\ ~MicrotaskQueued
  /\ reqs[r].pc = "new"
  /\ \A q \in 1..(r - 1) : reqs[q].pc # "new"
  /\ IF MustStart(e)
     THEN reqs' = [reqs EXCEPT ![r].pc = "getPort", ![r].entrypoint = e,
                               ![r].requestPath = rp]
     ELSE reqs' = [reqs EXCEPT ![r].pc = "done", ![r].entrypoint = e,
                               ![r].requestPath = rp,
                               ![r].routes = RoutesFor(rp, urls[e])]
  /\ UNCHANGED urls

\* A port no dev server of this process listens on
PortFree(p) == \A q \in 1..MaxRequests : ~(reqs[q].ready /\ reqs[q].port = p)

\* getPort resolves; startDevServer spawns `npx next dev <dir> --port <port>`
\* and waits for its output.
DevSpawn(r, p) ==
  /\ ~MicrotaskQueued
  /\ reqs[r].pc = "getPort"
  /\ PortFree(p)
  /\ reqs' = [reqs EXCEPT ![r].pc = "waiting", ![r].port = p, ![r].spawned = TRUE]
  /\ UNCHANGED urls

\* The spawned server writes a chunk to stdout; a chunk that contains the
\* URL is written once the server listens on its port.
DevStdout(r, includes) ==
  /\ ~MicrotaskQueued
  /\ reqs[r].spawned
  /\ includes => ~reqs[r].ready /\ PortFree(reqs[r].port)
  /\ LET ready == reqs[r].ready \/ includes
     IN IF reqs[r].pc # "waiting" \/ ChunkIgnored(includes, reqs[r].entrypoint)
        THEN reqs' = [reqs EXCEPT ![r].ready = ready]
        ELSE reqs' = [reqs EXCEPT ![r].ready = ready, ![r].pc = "resolved"]
  /\ UNCHANGED urls

\* The await of line 217 resumes: the URL is registered, the route pushed
\* and build() returns.
DevResume(r) ==
  /\ reqs[r].pc = "resolved"
  /\ urls' = [urls EXCEPT ![reqs[r].entrypoint] = Url(reqs[r].port)]
  /\ reqs' = [reqs EXCEPT ![r].pc = "done",
                          ![r].routes = RoutesFor(reqs[r].requestPath, Url(reqs[r].port))]

\* ------------------------------------------------------------ shouldServe

S_pages_index_js == <<"p","a","g","e","s","/","i","n","d","e","x",".","j","s">>
S_pages_about_js == <<"p","a","g","e","s","/","a","b","o","u","t",".","j","s">>
S_pages_blog_index_tsx == <<"p","a","g","e","s","/","b","l","o","g","/","i","n","d","e","x",".","t","s","x">>
S_app_pages_about_js == <<"a","p","p","/","p","a","g","e","s","/","a","b","o","u","t",".","j","s">>

S_slash_about == <<"/","a","b","o","u","t">>
S_about_slash == <<"a","b","o","u","t","/">>
S_slash_about_slash == <<"/","a","b","o","u","t","/">>
S_missing == <<"m","i","s","s","i","n","g">>
S_slash_missing == <<"/","m","i","s","s","i","n","g">>
S_next_x == <<"_","n","e","x","t","/","x">>
S_slash_next_x == <<"/","_","n","e","x","t","/","x">>
S_static_a == <<"s","t","a","t","i","c","/","a">>
S_app_about == <<"a","p","p","/","a","b","o","u","t">>

\* The source files shouldServe may be given
SourceFileCandidates == {S_pages_index_js, S_pages_about_js,
                         S_pages_blog_index_tsx, S_app_pages_about_js}

\* The request paths shouldServe is asked about
ServeRequestPaths == {
  S_empty, S_slash, S_about, S_slash_about, S_about_slash, S_slash_about_slash,
  S_blog, S_missing, S_slash_missing, S_next_x, S_slash_next_x, S_next, S_static_a,
  S_app_about,
  S_client_pages \o S_about_js, S_client_pages \o S_app_js,
  S_client_pages \o S_missing \o S_js
}

ServeInputs == [entrypoint : EntryPoints, files : SUBSET SourceFileCandidates,
                requestPath : ServeRequestPaths]

ServeIdle ==
  /\ sinp = [entrypoint |-> S_package_json, files |-> {}, requestPath |-> S_empty]
  /\ sres = "unset"

\* The extension / index candidates pageExists tries for a name
PageNameCandidates(name) ==
  IF name = S_empty \/ name = S_slash
  THEN {S_index \o ext : ext \in {S_js, S_ts, S_jsx, S_tsx, S_mdx}}
  ELSE {name \o ext : ext \in {S_js, S_ts, S_jsx, S_tsx, S_mdx}}
       \cup {name \o S_slash_index \o ext : ext \in {S_js, S_ts, S_jsx, S_tsx, S_mdx}}

\* `${entry ? `${entry}/` : ''}pages/${names[0]}`
PageKey(entry, n) ==
  (IF entry # S_empty THEN entry \o S_slash ELSE S_empty) \o S_pages_slash \o n

pageExists(name, pagesIn, entry) ==
  \E n \in PageNameCandidates(name) : PageKey(entry, n) \in pagesIn

\* new RegExp(`^${prefix}.+$`).test(s), for a prefix of plain characters
MatchesPrefixPlus(s, prefix) == StartsWith(s, prefix) /\ Len(s) > Len(prefix)

\* new RegExp(`^${prefix}(.+)\\.js$`).test(s)
MatchesClientPage(s, prefix) ==
  /\ StartsWith(s, prefix)
  /\ EndsWith(s, S_js)
  /\ Len(s) > Len(prefix) + Len(S_js)

\* The group (.+) of that match
ClientPageName(s, prefix) == SubSeq(s, Len(prefix) + 1, Len(s) - Len(S_js))

\* Mutant: the trailing slash is kept.
StripTrailingSlash_Keep(requestPath) == requestPath

\* requestPath.endsWith('/') ? requestPath.slice(0, -1) : requestPath
StripTrailingSlash(requestPath) ==
  IF EndsWith(requestPath, S_slash) THEN DropLast(requestPath, 1) ELSE requestPath

shouldServe(entrypoint, files, requestPath) ==
  LET entry == PathDirname(entrypoint)
      entryDirectory == IF entry = S_dot THEN S_empty ELSE entry \o S_slash
      pagesIn == includeOnlyEntryDirectory(files, PathJoin(entryDirectory, S_pages))
      clientPrefix == entryDirectory \o S_client_pages
  IN IF MatchesPrefixPlus(requestPath, entryDirectory \o S_static_slash) THEN TRUE
     ELSE IF MatchesClientPage(requestPath, clientPrefix)
     THEN IF ClientPageName(requestPath, clientPrefix) \in {S_error, S_document, S_app}
          THEN TRUE
          ELSE pageExists(ClientPageName(requestPath, clientPrefix), pagesIn, entryDirectory)
     ELSE IF MatchesPrefixPlus(requestPath, entryDirectory \o S_next) THEN TRUE
     ELSE pageExists(StripTrailingSlash(requestPath), pagesIn, entryDirectory)

\* One call of shouldServe
ServeCall ==
  /\ sres = "unset"
  /\ sres' = IF shouldServe(sinp.entrypoint, sinp.files, sinp.requestPath)
             THEN "true" ELSE "false"
  /\ UNCHANGED sinp

\* ----------------------------------------------------------- prepareCache

S_node_modules == <<"n","o","d","e","_","m","o","d","u","l","e","s">>
S_next_cache == <<".","n","e","x","t","/","c","a","c","h","e">>
S_yarn_lock == <<"y","a","r","n",".","l","o","c","k">>
S_package_lock == <<"p","a","c","k","a","g","e","-","l","o","c","k",".","j","s","o","n">>
S_node_modules_n == <<"n","o","d","e","_","m","o","d","u","l","e","s","/","n">>
S_next_cache_c == <<".","n","e","x","t","/","c","a","c","h","e","/","c">>

\* The files that may lie under workPath when prepareCache runs, as paths
\* relative to workPath
CacheFileCandidates == {
  S_node_modules_n, S_next_cache_c, S_yarn_lock, S_package_lock,
  S_pages_index_js,
  S_app_dir \o S_slash \o S_node_modules_n,
  S_app_dir \o S_slash \o S_yarn_lock
}

CacheInputs == [entrypoint : EntryPoints, deps : DepChoices, devDeps : DevDepChoices,
                tree : SUBSET CacheFileCandidates]

NoCacheResult == [state |-> "unset", files |-> {}]

CacheIdle ==
  /\ cinp = [entrypoint |-> S_package_json, deps |-> ReqAbsent, devDeps |-> ReqAbsent,
             tree |-> {}]
  /\ cres = NoCacheResult

\* glob(`${dir}/**`, workPath): the files below dir, keyed relative to workPath
GlobBelow(dir, tree) == {f \in tree : StartsWith(f, dir \o S_slash)}

\* glob(file, workPath): the file, when it exists
GlobFile(file, tree) == {f \in tree : f = file}

\* path.relative(workPath, path.join(workPath, entryDirectory))
CacheEntrypoint(entryDirectory) ==
  IF entryDirectory = S_dot THEN S_empty ELSE entryDirectory

\* Mutant: the legacy mode is cached like the modern one.
CacheSkipped_Never(legacy) == FALSE

\* if (isLegacy) return {}
CacheSkipped(legacy) == legacy

\* Lines 505-511: the cache file manifest of a modern project
CacheManifest(cacheEntrypoint, tree) ==
  GlobBelow(PathJoin(cacheEntrypoint, S_node_modules), tree)
    \cup GlobBelow(PathJoin(cacheEntrypoint, S_next_cache), tree)
    \cup GlobFile(PathJoin(cacheEntrypoint, S_package_lock), tree)
    \cup GlobFile(PathJoin(cacheEntrypoint, S_yarn_lock), tree)

prepareCache(inp) ==
  LET nextVersion == getNextVersion(inp)
  IN IF ~Truthy(nextVersion)
     THEN [state |-> "threw", files |-> {}]
     ELSE IF CacheSkipped(isLegacyNext(nextVersion))
     THEN [state |-> "returned", files |-> {}]
     ELSE [state |-> "returned",
           files |-> CacheManifest(CacheEntrypoint(PathDirname(inp.entrypoint)), inp.tree)]

\* One call of prepareCache
CacheCall ==
  /\ cres.state = "unset"
  /\ cres' = prepareCache(cinp)
  /\ UNCHANGED cinp

\* ----------------------------------------------------- isLegacyNext: calls

\* The versions a requirement may name
ReqVersions == {<<maj, min, pat>> : maj \in 4..8, min \in 0..1, pat \in 0..2}

\* The requirement strings isLegacyNext is called with
VersionInputs ==
  {ReqLatest, ReqCanary, ReqInvalid}
    \cup {Req(kind, v, "") : kind \in {"exact", "caret", "gte"}, v \in ReqVersions}

VersionIdle ==
  /\ vinp = ReqAbsent
  /\ vres = "unset"

\* One call of isLegacyNext
VersionCall ==
  /\ vres = "unset"
  /\ vinp # ReqAbsent
  /\ vres' = IF isLegacyNext(vinp) THEN "true" ELSE "false"
  /\ UNCHANGED vinp

\* ------------------------------------------------------ the specifications

\* One non-interactive build() invocation, for every input and every outcome
\* of the external steps.
BuildInit ==
  /\ BuildIdle
  /\ DevIdle
  /\ ServeIdle
  /\ CacheIdle
  /\ VersionIdle

BuildStart ==
  /\ bpc = "off"
  /\ bpc' = "start"
  /\ binp' \in BuildInputs
  /\ UNCHANGED <<disk, isLegacy, steps, pages, pending, lambdas, result, error, logs>>

BuildNext ==
  \/ BuildStart /\ UNCHANGED <<devVars, serveVars, cacheVars, versionVars>>
  \/ Download /\ UNCHANGED <<devVars, serveVars, cacheVars, versionVars>>
  \/ Classify /\ UNCHANGED <<devVars, serveVars, cacheVars, versionVars>>
  \/ UnlinkLockfiles /\ UNCHANGED <<devVars, serveVars, cacheVars, versionVars>>
  \/ Normalize /\ UNCHANGED <<devVars, serveVars, cacheVars, versionVars>>
  \/ WriteNpmRc /\ UNCHANGED <<devVars, serveVars, cacheVars, versionVars>>
  \/ Install /\ UNCHANGED <<devVars, serveVars, cacheVars, versionVars>>
  \/ RunScript /\ UNCHANGED <<devVars, serveVars, cacheVars, versionVars>>
  \/ ProdInstall /\ UNCHANGED <<devVars, serveVars, cacheVars, versionVars>>
  \/ UnlinkNpmRc /\ UNCHANGED <<devVars, serveVars, cacheVars, versionVars>>
  \/ ReadBuildId /\ UNCHANGED <<devVars, serveVars, cacheVars, versionVars>>
  \/ DiscoverLegacy /\ UNCHANGED <<devVars, serveVars, cacheVars, versionVars>>
  \/ DiscoverModern /\ UNCHANGED <<devVars, serveVars, cacheVars, versionVars>>
  \/ NoPagesThrow /\ UNCHANGED <<devVars, serveVars, cacheVars, versionVars>>
  \/ StartPackaging /\ UNCHANGED <<devVars, serveVars, cacheVars, versionVars>>
  \/ (\E p \in PageCandidates : PackagePage(p)) /\ UNCHANGED <<devVars, serveVars, cacheVars, versionVars>>
  \/ (\E p \in PageCandidates : PackageFail(p)) /\ UNCHANGED <<devVars, serveVars, cacheVars, versionVars>>
  \/ Finish /\ UNCHANGED <<devVars, serveVars, cacheVars, versionVars>>

SpecBuild == BuildInit /\ [][BuildNext]_vars

\* The interactive build() invocations of one process, interleaved at their
\* awaits as the event loop allows.
DevNext ==
  \/ (\E r \in 1..MaxRequests, e \in EntryPoints, rp \in RequestPaths : DevBegin(r, e, rp))
       /\ UNCHANGED <<buildVars, serveVars, cacheVars, versionVars>>
  \/ (\E r \in 1..MaxRequests, p \in Ports : DevSpawn(r, p))
       /\ UNCHANGED <<buildVars, serveVars, cacheVars, versionVars>>
  \/ (\E r \in 1..MaxRequests, includes \in BOOLEAN : DevStdout(r, includes))
       /\ UNCHANGED <<buildVars, serveVars, cacheVars, versionVars>>
  \/ (\E r \in 1..MaxRequests : DevResume(r))
       /\ UNCHANGED <<buildVars, serveVars, cacheVars, versionVars>>

SpecDev == BuildInit /\ [][DevNext]_vars

\* shouldServe on every input
ServeStart ==
  /\ sres = "unset"
  /\ sinp.files = {} /\ sinp.requestPath = S_empty
  /\ sinp' \in ServeInputs
  /\ UNCHANGED sres

ServeNext ==
  \/ ServeStart /\ UNCHANGED <<buildVars, devVars, cacheVars, versionVars>>
  \/ ServeCall /\ UNCHANGED <<buildVars, devVars, cacheVars, versionVars>>

SpecServe == BuildInit /\ [][ServeNext]_vars

\* prepareCache on every input
CacheStart ==
  /\ cres.state = "unset"
  /\ cinp.tree = {} /\ cinp.deps = ReqAbsent /\ cinp.devDeps = ReqAbsent
  /\ cinp' \in CacheInputs
  /\ UNCHANGED cres

CacheNext ==
  \/ CacheStart /\ UNCHANGED <<buildVars, devVars, serveVars, versionVars>>
  \/ CacheCall /\ UNCHANGED <<buildVars, devVars, serveVars, versionVars>>

SpecCache == BuildInit /\ [][CacheNext]_vars

\* isLegacyNext on every requirement
VersionStart ==
  /\ vres = "unset"
  /\ vinp = ReqAbsent
  /\ vinp' \in VersionInputs
  /\ UNCHANGED vres

VersionNext ==
  \/ VersionStart /\ UNCHANGED <<buildVars, devVars, serveVars, cacheVars>>
  \/ VersionCall /\ UNCHANGED <<buildVars, devVars, serveVars, cacheVars>>

SpecVersion == BuildInit /\ [][VersionNext]_vars

\* ------------------------------------------------------------ the claims

BuildEnded == bpc \in {"done", "failed"}

SpecialPages == {S_app_js, S_error_js, S_document_js}

\* C1: at most one dev server is ever started for an entry point, under any
\* interleaving of interactive requests for it.
C1_AtMostOneServer ==
  \A e \in EntryPoints : Cardinality(ServersStarted(e)) <= 1

\* C2: with an auth token set, .npmrc is not on disk when the invocation ends,
\* whether it returned or threw.
C2_NpmrcGoneAtEnd ==
  (BuildEnded /\ binp.token) => ~disk.npmrc

\* C3: the unit of every non-special page is in the output under
\* the entry directory joined with the route name, index collapsed.
C3_KeyCollapsesIndex ==
  bpc = "done" =>
    \A p \in pages \ SpecialPages :
      LET k == PathJoin(PathDirname(binp.entrypoint), CollapseIndex(StripJs(p)))
      IN k \in DOMAIN result.output /\ result.output[k].page = p

\* C4: no unit of a returned output, and no unit created, has the route
\* _app, _error or _document.
C4_NoSpecialUnits ==
  LET special == {PathJoin(PathDirname(binp.entrypoint), n) : n \in {S_app, S_error, S_document}}
  IN /\ \A k \in DOMAIN lambdas : k \notin special
     /\ \A k \in DOMAIN result.output :
          result.output[k].group = "lambda" => k \notin special

\* A build returned units although special pages were among the bundles.
C4_Witness ==
  /\ bpc = "done"
  /\ pages \cap SpecialPages # {}
  /\ DOMAIN lambdas # {}

\* C5: without a next dependency the build throws before install, build
\* script and manifest write.
C5_MissingNextFailsEarly ==
  ( /\ binp.deps.kind \in {"absent", "empty"}
    /\ binp.devDeps.kind \in {"absent", "empty"}
    /\ bpc \notin {"off", "start", "downloaded"} )
  => /\ bpc = "failed"
     /\ error = "No Next.js version could be detected"
     /\ steps = <<"download">>
     /\ disk.pkgWrites = 0
     /\ isLegacy = "unset"
     /\ ~result.returned

\* The build threw for a manifest without next.
C5_Witness ==
  /\ bpc = "failed"
  /\ binp.deps.kind = "absent"
  /\ binp.devDeps.kind = "absent"
  /\ disk.downloaded

\* C6: an unparseable requirement fails the build; it is never classified
\* and never installed with.
C6_UnparseableFails ==
  ( /\ binp.deps.kind = "invalid"
    /\ bpc \notin {"off", "start", "downloaded"} )
  => /\ bpc = "failed"
     /\ isLegacy = "unset"
     /\ steps = <<"download">>

\* C7: a legacy build without .next/BUILD_ID throws, creates no unit and
\* returns nothing.
C7_MissingBuildIdFails ==
  (isLegacy = "true" /\ disk.buildId = "absent")
  => /\ bpc = "failed"
     /\ error = "Missing BUILD_ID"
     /\ ~result.returned
     /\ lambdas = EmptyFiles
     /\ pending = {}

\* A legacy build ran its three external steps and then missed BUILD_ID.
C7_Witness ==
  /\ isLegacy = "true"
  /\ disk.buildId = "absent"
  /\ steps = <<"download", "install", "now-build", "install --production">>
  /\ bpc = "failed"

\* C8: a modern build that finds no page bundle does nothing but look for the
\* framework config and throw, after printing the config when one is found;
\* it starts no packaging, creates no unit and returns nothing.
C8_NoPagesFails ==
  (isLegacy = "false" /\ disk.globbed /\ pages = {})
  => /\ bpc \in {"discover", "failed"}
     /\ bpc = "discover" => disk.nextConfig = "unread" /\ error = ""
     /\ bpc = "failed" =>
          /\ error = "No serverless pages were built"
          /\ disk.nextConfig # "unread"
     /\ ~result.returned
     /\ lambdas = EmptyFiles
     /\ pending = {}
     /\ disk.nextConfig = "found" => "Found next.config.js" \in logs

\* A modern build found no page bundle and a framework config.
C8_Witness ==
  /\ isLegacy = "false"
  /\ disk.globbed
  /\ pages = {}
  /\ disk.nextConfig = "found"
  /\ bpc = "failed"

ServeCase(files, requestPath) ==
  /\ sres # "unset"
  /\ sinp.entrypoint = S_package_json
  /\ sinp.files = files
  /\ sinp.requestPath = requestPath

TwoPages == {S_pages_index_js, S_pages_about_js}

\* C9 as stated: with pages/index.js and pages/about.js at the root, the
\* paths /, /about, /about/ and _next/... are served and /missing is not.
C9_ServeAsStated ==
  /\ \A rp \in {S_slash, S_slash_about, S_slash_about_slash, S_next_x} :
       ServeCase(TwoPages, rp) => sres = "true"
  /\ ServeCase(TwoPages, S_slash_missing) => sres = "false"

\* C9 as amended: request paths carry no leading slash.  "", "/", "about",
\* "about/" and the _next/... paths are served, except the unoptimized-build
\* bundle of a page that does not exist; "missing", "/missing", and also
\* "/about" and "/about/", are not.
C9_ServeRelativePaths ==
  /\ \A rp \in {S_empty, S_slash, S_about, S_about_slash, S_next_x,
                 S_client_pages \o S_about_js, S_client_pages \o S_app_js} :
       ServeCase(TwoPages, rp) => sres = "true"
  /\ \A rp \in {S_missing, S_slash_missing, S_slash_about, S_slash_about_slash,
                 S_client_pages \o S_missing \o S_js} :
       ServeCase(TwoPages, rp) => sres = "false"

\* shouldServe answered for about/ with the two pages.
C9_Witness ==
  /\ ServeCase(TwoPages, S_about_slash)
  /\ sres = "true"

\* C10: a registered URL is never removed or changed; a request that finds
\* its entry point registered starts no server and returns at once with the
\* route to that URL; a returned request does nothing more.
C10_RegistryIsStable ==
  [][ /\ \A e \in EntryPoints : urls[e].set => urls'[e] = urls[e]
      /\ \A r \in 1..MaxRequests :
           /\ ( /\ reqs[r].pc = "new"
                /\ reqs'[r].pc # "new"
                /\ urls[reqs'[r].entrypoint].set )
              => /\ reqs'[r].pc = "done"
                 /\ ~reqs'[r].spawned
                 /\ reqs'[r].routes =
                      IF reqs'[r].requestPath.def
                      THEN <<[src |-> UrlPathname(S_slash \o reqs'[r].requestPath.val),
                              dest |-> [base |-> urls'[reqs'[r].entrypoint],
                                        path |-> reqs'[r].requestPath.val]]>>
                      ELSE <<>>
           /\ reqs[r].pc = "done" => reqs'[r] = reqs[r]
    ]_vars

\* A request reused the URL registered by an earlier one while a second
\* server, started in the race, had become ready on another port.
C10_Witness ==
  \E r, q \in 1..MaxRequests :
    /\ reqs[r].pc = "done"
    /\ ~reqs[r].spawned
    /\ reqs[r].routes # <<>>
    /\ reqs[q].entrypoint = reqs[r].entrypoint
    /\ reqs[q].pc = "waiting"
    /\ reqs[q].ready
    /\ urls[reqs[r].entrypoint].set
    /\ urls[reqs[r].entrypoint].port # reqs[q].port

\* C11: prepareCache returns the empty File Set for a project classified as
\* legacy, whatever lies under workPath; a non-empty manifest comes only from
\* a modern project and holds only files of the entry's project directory:
\* its node_modules, its .next/cache and its two lockfiles.
C11_LegacyCacheEmpty ==
  cres.state = "returned" =>
    LET legacy == isLegacyNext(getNextVersion(cinp))
        dir == PathDirname(cinp.entrypoint)
        under(f) == dir = S_dot \/ StartsWith(f, dir \o S_slash)
        rel(f) == IF dir = S_dot THEN f ELSE DropFirst(f, Len(dir) + 1)
    IN /\ legacy => cres.files = {}
       /\ ~legacy =>
            cres.files =
              {f \in cinp.tree :
                 /\ under(f)
                 /\ \/ StartsWith(rel(f), S_node_modules \o S_slash)
                    \/ StartsWith(rel(f), S_next_cache \o S_slash)
                    \/ rel(f) \in {S_yarn_lock, S_package_lock}}

\* prepareCache returned for a legacy project whose tree holds node_modules,
\* a build cache and a lockfile.
C11_Witness ==
  /\ cres.state = "returned"
  /\ cres.files = {}
  /\ isLegacyNext(getNextVersion(cinp))
  /\ {S_node_modules_n, S_next_cache_c, S_yarn_lock} \subseteq cinp.tree

\* C12: a build invocation with the interactive flag set runs none of the
\* pipeline steps: nothing is materialized, installed, built or packaged.
C12_InteractiveSkipsPipeline ==
  binp.isDev =>
    /\ steps = <<>>
    /\ ~disk.downloaded
    /\ disk.pkgWrites = 0
    /\ lambdas = EmptyFiles

Range(s) == {s[i] : i \in DOMAIN s}

IsPrefix(s, t) == Len(s) <= Len(t) /\ SubSeq(t, 1, Len(s)) = s

\* The external processes of a whole pipeline, in the order of the code
ExpectedSteps(legacy) ==
  IF legacy = "true"
  THEN <<"download", "install", "now-build", "install --production">>
  ELSE <<"download", "install", "now-build">>

\* C13: the steps run in the order materialize, classify, normalize,
\* install, build script, (legacy only) production-only install, package;
\* each starts only after the previous one succeeded, the production-only
\* install never runs in modern mode, and no step runs twice.
C13_StepsInOrder ==
  /\ IsPrefix(steps, ExpectedSteps("true"))
  /\ "install --production" \in Range(steps) => isLegacy = "true"
  /\ bpc \in {"off", "start"} => steps = <<>>
  /\ bpc \in {"downloaded", "classified", "normalized", "install"} =>
       steps = <<"download">>
  /\ bpc = "script" => steps = <<"download", "install">>
  /\ bpc = "prodInstall" => steps = <<"download", "install", "now-build">>
  /\ bpc \in {"unlink", "discover", "package", "done"} =>
       steps = ExpectedSteps(isLegacy)
  /\ bpc = "failed" => steps # <<>>
  \* classified exactly when the classification step was passed
  /\ isLegacy = "unset" <=>
       \/ bpc \in {"off", "start", "downloaded"}
       \/ bpc = "failed" /\ steps = <<"download">> /\ MissingVersion(getNextVersion(binp))
  \* the manifest is normalized, once, before the install starts
  /\ disk.pkgWrites <= 1
  /\ Len(steps) >= 2 =>
       /\ isLegacy = "true" => disk.normalized /\ disk.pkgWrites = 1
       /\ isLegacy = "false" /\ LacksNowBuild(binp.scripts) => disk.pkgWrites = 1
  \* packaging starts only after every earlier step succeeded
  /\ (disk.globbed \/ pages # {} \/ lambdas # EmptyFiles) =>
       steps = ExpectedSteps(isLegacy)

\* A legacy build that ran to its end through all four external steps.
C13_Witness ==
  /\ bpc = "done"
  /\ isLegacy = "true"
  /\ steps = <<"download", "install", "now-build", "install --production">>
  /\ lambdas # EmptyFiles

\* C14: with an auth token set, the credentials file is gone as soon as the
\* dependency install has completed: it is not on disk while the build
\* script runs or at any later stage.
C14_NpmrcGoneAfterInstall ==
  (binp.token /\ bpc \in {"script", "prodInstall", "unlink", "discover", "package", "done"})
    => ~disk.npmrc

\* The units of the returned output that are Deployable Units
OutputLambdas == {k \in DOMAIN result.output : result.output[k].group = "lambda"}

\* C15: the build returns only after every packaging operation completed,
\* and the output of a successful build holds exactly one Deployable Unit
\* for every discovered non-special page; a failed packaging operation fails
\* the build.
C15_OneUnitPerPage ==
  /\ bpc = "done" =>
       /\ pending = {}
       /\ \A p \in pages \ SpecialPages :
            \E k \in OutputLambdas : result.output[k].page = p
       /\ Cardinality(OutputLambdas) = Cardinality(pages \ SpecialPages)
  /\ error = "createLambda failed" => bpc = "failed" /\ ~result.returned

\* C16: a request whose spawned dev server has written the URL to its output
\* is resolved: it does not stay waiting.
C16_ReadyServerResolves ==
  \A r \in 1..MaxRequests :
    (reqs[r].spawned /\ reqs[r].ready) => reqs[r].pc \in {"resolved", "done"}

\* C19: in the output of a successful build no key of a Deployable Unit is
\* also the key of a file of .next/static or of the static directory, so
\* every unit created is in the output.
C19_GroupsDisjoint ==
  bpc = "done" =>
    /\ \A k \in DOMAIN lambdas :
         k \in DOMAIN result.output /\ result.output[k] = lambdas[k]
    /\ \A k \in DOMAIN result.output :
         /\ result.output[k].group = "static" =>
              StartsWith(k, PathJoin(EntryDirectory, S_next_static))
         /\ result.output[k].group = "staticDir" =>
              StartsWith(k, PathJoin(EntryDirectory, S_static))

\* a >= b for versions, major first
AtLeast(a, b) ==
  \/ a[1] > b[1]
  \/ a[1] = b[1] /\ a[2] > b[2]
  \/ a[1] = b[1] /\ a[2] = b[2] /\ a[3] >= b[3]

\* Some version of the legacy list lies in the range the requirement
\* denotes: the version itself, ^v (same major from v on, for a major above
\* 0) or >=v.
SomeLegacyVersionIn(req) ==
  \E l \in NextLegacyVersions :
    \/ req.kind = "exact" /\ l = req.v
    \/ req.kind = "caret" /\ l[1] = req.v[1] /\ AtLeast(l, req.v)
    \/ req.kind = "gte" /\ AtLeast(l, req.v)

\* C17: a dist-tag is modern; a requirement that is a member of the legacy
\* list is legacy; any other requirement is legacy exactly when some version
\* of the legacy list satisfies it, so one satisfied only by newer versions
\* is modern.
C17_Classification ==
  vres # "unset" =>
    /\ vinp \in {ReqLatest, ReqCanary} => vres = "false"
    /\ (vinp.kind = "exact" /\ vinp.v \in NextLegacyVersions) => vres = "true"
    /\ vinp \notin {ReqLatest, ReqCanary} =>
         (vres = "true" <=> SomeLegacyVersionIn(vinp))
    /\ (vinp.kind \in {"caret", "gte"}
          /\ \A l \in NextLegacyVersions : VersionLess(l, vinp.v)) => vres = "false"

\* A range that only versions above the whole legacy list satisfy was
\* classified modern.
C17_Witness ==
  /\ vres = "false"
  /\ vinp = Req("gte", <<8, 0, 0>>, "")

\* Lines 284-294 as a function of the scripts mapping
NormalizeModern(scripts) ==
  IF LacksNowBuild(scripts) THEN InjectNowBuild(scripts) ELSE scripts

\* C18: in modern mode the normalization adds the default build script only
\* when the manifest has none and keeps every other script; with one present
\* the manifest is not changed and not written; normalizing twice gives the
\* same scripts as normalizing once.
C18_ModernNormalization ==
  (isLegacy = "false" /\ bpc \notin {"off", "start", "downloaded", "classified"}) =>
    /\ IF LacksNowBuild(binp.scripts)
       THEN /\ disk.scripts.def
            /\ "now-build" \in DOMAIN disk.scripts.m
            /\ disk.scripts.m["now-build"] = "next build"
            /\ \A k \in DOMAIN binp.scripts.m \ {"now-build"} :
                 k \in DOMAIN disk.scripts.m /\ disk.scripts.m[k] = binp.scripts.m[k]
            /\ disk.pkgWrites = 1
       ELSE /\ disk.scripts = binp.scripts
            /\ disk.pkgWrites = 0
    /\ NormalizeModern(disk.scripts) = disk.scripts

\* C20: a build that returns has created, and returns, at least one
\* Deployable Unit; a modern build whose bundles are all special pages does
\* not return.
C20_SuccessHasUnit ==
  bpc = "done" =>
    /\ DOMAIN lambdas # {}
    /\ OutputLambdas # {}
    /\ ~(isLegacy = "false" /\ pages \subseteq SpecialPages)

====
